---- MODULE Spec2Model ----
(***************************************************************************)
(* apt-history: reconstruction of transaction records from the rotated     *)
(* apt history logs (src/src/history.rs) and the queries answered from     *)
(* them, together with the older single-file tool (src/src/main.rs).       *)
(*                                                                         *)
(* Text is modelled at character level: a string is a sequence of          *)
(* one-character strings, so that splitting, scanning and number parsing   *)
(* are computed the way the code computes them.                            *)
(***************************************************************************)
EXTENDS Integers, Sequences, FiniteSets, TLC

(***************************************************************************)
(* Bounds of the model.                                                    *)
(***************************************************************************)
\* Largest rotation suffix of a file name in the log directory.
MaxRot == 2
\* Largest number of entries in the log directory.
MaxFiles == 3
\* Largest number of lines read, over all files of one run.
MaxLines == 3

(***************************************************************************)
(* Generic text helpers (semantics of the Rust std string operations).     *)
(***************************************************************************)
Min(S) == CHOOSE x \in S : \A y \in S : x <= y

Range(s) == {s[i] : i \in DOMAIN s}

Front(s) == SubSeq(s, 1, Len(s) - 1)

\* str::starts_with
starts_with(s, p) == Len(p) <= Len(s) /\ SubSeq(s, 1, Len(p)) = p

\* str::ends_with
ends_with(s, p) == Len(p) <= Len(s) /\ SubSeq(s, Len(s) - Len(p) + 1, Len(s)) = p

\* Index of the first occurrence of pat in s, 0 when there is none.
find(s, pat) ==
    LET at == {j \in 1..(Len(s) - Len(pat) + 1) : SubSeq(s, j, j + Len(pat) - 1) = pat}
    IN  IF at = {} THEN 0 ELSE Min(at)

\* str::split(pat).collect(): the segments between the non-overlapping
\* occurrences of pat, left to right; always at least one segment.
RECURSIVE split(_, _)
split(s, pat) ==
    LET j == find(s, pat)
    IN  IF j = 0 THEN <<s>>
        ELSE <<SubSeq(s, 1, j - 1)>> \o split(SubSeq(s, j + Len(pat), Len(s)), pat)

Digits == <<"0", "1", "2", "3", "4", "5", "6", "7", "8", "9">>

IsDigit(c) == c \in Range(Digits)

DigitVal(c) == (CHOOSE d \in 1..10 : Digits[d] = c) - 1

RECURSIVE strip_zeros(_)
strip_zeros(ds) == IF Len(ds) > 1 /\ ds[1] = "0" THEN strip_zeros(Tail(ds)) ELSE ds

RECURSIVE digits_value(_)
digits_value(ds) ==
    IF ds = <<>> THEN 0 ELSE 10 * digits_value(Front(ds)) + DigitVal(ds[Len(ds)])

\* u32::to_string / usize::to_string
RECURSIVE to_string(_)
to_string(n) ==
    IF n < 10 THEN <<Digits[n + 1]>> ELSE Append(to_string(n \div 10), Digits[(n % 10) + 1])

\* str::parse::<u32>(): an optional '+', then one or more digits.  Values of
\* ten or more significant digits are reported as a failure here; the
\* rotation suffixes of the model stay far below that.
parse_u32(s) ==
    LET ds == IF s # <<>> /\ s[1] = "+" THEN Tail(s) ELSE s
        sig == strip_zeros(ds)
    IN  IF ds = <<>> \/ (\E i \in DOMAIN ds : ~IsDigit(ds[i])) \/ Len(sig) > 9
        THEN [ok |-> FALSE, val |-> 0]
        ELSE [ok |-> TRUE, val |-> digits_value(sig)]

\* str::parse::<i32>(): an optional sign, then one or more digits, the value
\* within -2147483648..2147483647.
parse_i32(s) ==
    LET neg == s # <<>> /\ s[1] = "-"
        ds  == IF s # <<>> /\ s[1] \in {"+", "-"} THEN Tail(s) ELSE s
        sig == strip_zeros(ds)
        hi  == digits_value(SubSeq(sig, 1, Len(sig) - 5))
        lo  == digits_value(SubSeq(sig, Len(sig) - 4, Len(sig)))
        fits == \/ Len(sig) <= 9
                \/ /\ Len(sig) = 10
                   /\ \/ hi < 21474
                      \/ hi = 21474 /\ lo <= (IF neg THEN 83648 ELSE 83647)
    IN  IF ds = <<>> \/ (\E i \in DOMAIN ds : ~IsDigit(ds[i])) \/ ~fits
        THEN [ok |-> FALSE, val |-> 0]
        ELSE IF Len(sig) <= 9
             THEN [ok |-> TRUE, val |-> IF neg THEN 0 - digits_value(sig) ELSE digits_value(sig)]
             ELSE [ok |-> TRUE,
                   val |-> IF neg THEN (0 - hi * 100000) - lo ELSE hi * 100000 + lo]

(***************************************************************************)
(* Constants of history.rs.                                                *)
(***************************************************************************)
CURRENT_HISTORY_FILE == <<"h","i","s","t","o","r","y",".","l","o","g">>

COMMAND_LINE_ELLIPSIS == <<" ","<",".",".",".",">">>

MAX_COMMAND_LINE_LEN == 100

GZ_SUFFIX == <<".","g","z">>

APT_PREFIX == <<"a","p","t"," ">>

FIELD_SEPARATOR == <<":"," ">>

K_Commandline == <<"C","o","m","m","a","n","d","l","i","n","e">>
K_EndDate == <<"E","n","d","-","D","a","t","e">>
K_StartDate == <<"S","t","a","r","t","-","D","a","t","e">>
K_Install == <<"I","n","s","t","a","l","l">>
K_Purge == <<"P","u","r","g","e">>
K_Reinstall == <<"R","e","i","n","s","t","a","l","l">>
K_Remove == <<"R","e","m","o","v","e">>
K_Upgrade == <<"U","p","g","r","a","d","e">>
K_Error == <<"E","r","r","o","r">>
K_RequestedBy == <<"R","e","q","u","e","s","t","e","d","-","B","y">>

ActionKeys == {K_Install, K_Purge, K_Reinstall, K_Remove, K_Upgrade}

(***************************************************************************)
(* Log discovery: the directory, the file-name pattern and the ordering.   *)
(***************************************************************************)
\* history.log.<n>.gz
RotatedName(n) == CURRENT_HISTORY_FILE \o <<".">> \o to_string(n) \o GZ_SUFFIX

\* The names a log directory of the model may hold.
FileNames == {CURRENT_HISTORY_FILE} \cup {RotatedName(n) : n \in 1..MaxRot}

\* Regex::is_match for APT_HISTORY_LOG_PATTERN: the pattern is not anchored
\* and its suffix group is optional, so a name matches exactly when it
\* contains the text "history.log".
log_file_regex_is_match(name) == find(name, CURRENT_HISTORY_FILE) # 0

\* log_file_num: the third '.'-separated field, parsed as u32; a missing
\* field or a parse failure panics (ok = FALSE).
log_file_num(f) ==
    LET fields == split(f, <<".">>)
    IN  IF Len(fields) < 3 THEN [ok |-> FALSE, val |-> 0] ELSE parse_u32(fields[3])

\* Faulty variant of sort_log_files: rotated files by ascending suffix.
sort_log_files_ascending(a, b) ==
    IF a = CURRENT_HISTORY_FILE THEN "Greater"
    ELSE IF b = CURRENT_HISTORY_FILE THEN "Less"
    ELSE LET a_num == log_file_num(a)
             b_num == log_file_num(b)
         IN  IF ~a_num.ok \/ ~b_num.ok THEN "panic"
             ELSE IF a_num.val < b_num.val THEN "Less"
             ELSE IF a_num.val > b_num.val THEN "Greater"
             ELSE "Equal"

\* sort_log_files: the comparator handed to sort_by.
sort_log_files(a, b) ==
    IF a = CURRENT_HISTORY_FILE THEN "Greater"
    ELSE IF b = CURRENT_HISTORY_FILE THEN "Less"
    ELSE LET a_num == log_file_num(a)
             b_num == log_file_num(b)
         IN  IF ~a_num.ok \/ ~b_num.ok THEN "panic"
             ELSE IF a_num.val < b_num.val THEN "Greater"
             ELSE IF a_num.val > b_num.val THEN "Less"
             ELSE "Equal"

\* One insertion of the stable sort: x moves left past every element it
\* compares Less than.
RECURSIVE sort_insert(_, _)
sort_insert(sorted, x) ==
    IF sorted = <<>> THEN [ok |-> TRUE, val |-> <<x>>]
    ELSE LET last == sorted[Len(sorted)]
             c    == sort_log_files(x, last)
         IN  IF c = "panic" THEN [ok |-> FALSE, val |-> <<>>]
             ELSE IF c = "Less"
             THEN LET r == sort_insert(Front(sorted), x)
                  IN  [ok |-> r.ok, val |-> Append(r.val, last)]
             ELSE [ok |-> TRUE, val |-> Append(sorted, x)]

\* Vec::sort_by(sort_log_files): a stable comparison sort (an insertion
\* sort, which is what the standard library runs on short vectors).
RECURSIVE sort_by(_)
sort_by(v) ==
    IF v = <<>> THEN [ok |-> TRUE, val |-> <<>>]
    ELSE LET r == sort_by(Front(v))
         IN  IF ~r.ok THEN r ELSE sort_insert(r.val, v[Len(v)])

\* All orders in which read_dir may list the names of a directory.
Listings(names) ==
    {l \in [1..Cardinality(names) -> names] : Range(l) = names}

\* The filter of the read_dir loop, in listing order.
RECURSIVE select_candidates(_)
select_candidates(listing) ==
    IF listing = <<>> THEN <<>>
    ELSE LET rest == select_candidates(Front(listing))
             name == listing[Len(listing)]
         IN  IF log_file_regex_is_match(name) THEN Append(rest, name) ELSE rest

(***************************************************************************)
(* Maps (HashMap) as functions, and sums over them.                        *)
(***************************************************************************)
EmptyMap == [k \in {} |-> {}]

Put(m, k, v) == [x \in (DOMAIN m) \cup {k} |-> IF x = k THEN v ELSE m[x]]

RECURSIVE SumOver(_, _)
SumOver(S, f) ==
    IF S = {} THEN 0
    ELSE LET x == CHOOSE y \in S : TRUE IN f[x] + SumOver(S \ {x}, f)

(***************************************************************************)
(* Package index builder.                                                  *)
(***************************************************************************)
\* Faulty variant of add_parsed_package: a token replaces the set of its
\* architecture instead of joining it.
add_parsed_package_replacing(packages, package) ==
    LET fields == split(package, <<":">>)
    IN  IF Len(fields) < 2 THEN [ok |-> FALSE, val |-> packages]
        ELSE [ok |-> TRUE, val |-> Put(packages, fields[2], {fields[1]})]

\* add_parsed_package: the token split on ':' (every occurrence); the name
\* is field 0, the architecture field 1; a missing field 1 panics.
add_parsed_package(packages, package) ==
    LET fields == split(package, <<":">>)
    IN  IF Len(fields) < 2 THEN [ok |-> FALSE, val |-> packages]
        ELSE LET name == fields[1]
                 arch == fields[2]
             IN  [ok |-> TRUE,
                  val |-> IF arch \in DOMAIN packages
                          THEN [packages EXCEPT ![arch] = @ \cup {name}]
                          ELSE Put(packages, arch, {name})]

\* Faulty variant of scan_char: a comma ends the token inside parentheses
\* too.
scan_char_any_comma(st, c) ==
    IF ~st.ok THEN st
    ELSE IF c = " " THEN st
    ELSE IF c = "(" THEN [st EXCEPT !.inside_parens = TRUE]
    ELSE IF c = ")" THEN [st EXCEPT !.inside_parens = FALSE]
    ELSE IF c = ","
         THEN LET r == add_parsed_package(st.packages, st.package)
              IN  [st EXCEPT !.ok = r.ok, !.packages = r.val, !.package = <<>>]
    ELSE IF ~st.inside_parens THEN [st EXCEPT !.package = Append(@, c)]
    ELSE st

\* One iteration of the character loop of packages_from_action_line.
scan_char(st, c) ==
    IF ~st.ok THEN st
    ELSE IF c = " " THEN st
    ELSE IF c = "(" THEN [st EXCEPT !.inside_parens = TRUE]
    ELSE IF c = ")" THEN [st EXCEPT !.inside_parens = FALSE]
    ELSE IF c = ","
         THEN IF ~st.inside_parens
              THEN LET r == add_parsed_package(st.packages, st.package)
                   IN  [st EXCEPT !.ok = r.ok, !.packages = r.val, !.package = <<>>]
              ELSE st
    ELSE IF ~st.inside_parens THEN [st EXCEPT !.package = Append(@, c)]
    ELSE st

RECURSIVE scan_from(_, _, _)
scan_from(line, i, st) ==
    IF i > Len(line) THEN st
    ELSE LET next == scan_char(st, line[i])
         IN  IF next.ok THEN scan_from(line, i + 1, next) ELSE next

\* packages_from_action_line: the scan, then the flush of the last token.
packages_from_action_line(line) ==
    LET st == scan_from(line, 1,
                        [ok |-> TRUE, packages |-> EmptyMap, package |-> <<>>,
                         inside_parens |-> FALSE])
    IN  IF ~st.ok THEN [ok |-> FALSE, val |-> EmptyMap]
        ELSE add_parsed_package(st.packages, st.package)

(***************************************************************************)
(* Records.                                                                *)
(***************************************************************************)
\* The wall-clock readings a run may see (Local::now()).
Clock == {[y |-> 2026, mo |-> 1, d |-> 1, h |-> 0, mi |-> 0, s |-> 0],
          [y |-> 2026, mo |-> 1, d |-> 2, h |-> 0, mi |-> 0, s |-> 0]}

\* HistoryEntry::new / Default: the dates default to the current time t.
HistoryEntry_new(t) ==
    [affected |-> EmptyMap, altered |-> 0, command_line |-> <<>>,
     end_date |-> t, id |-> 0, start_date |-> t]

\* NaiveDateTime::parse_from_str(value, "%F  %T"), for the fixed-width form
\* YYYY-MM-DD<two spaces>HH:MM:SS the logs carry; anything else fails.
parse_from_str(v) ==
    LET num(i, j) == digits_value(SubSeq(v, i, j))
        shape == /\ Len(v) = 20
                 /\ \A i \in {1,2,3,4,6,7,9,10,13,14,16,17,19,20} : IsDigit(v[i])
                 /\ v[5] = "-" /\ v[8] = "-" /\ v[11] = " " /\ v[12] = " "
                 /\ v[15] = ":" /\ v[18] = ":"
    IN  IF shape /\ num(6, 7) \in 1..12 /\ num(9, 10) \in 1..31
           /\ num(13, 14) \in 0..23 /\ num(16, 17) \in 0..59 /\ num(19, 20) \in 0..60
        THEN [ok |-> TRUE,
              val |-> [y |-> num(1, 4), mo |-> num(6, 7), d |-> num(9, 10),
                       h |-> num(13, 14), mi |-> num(16, 17), s |-> num(19, 20)]]
        ELSE [ok |-> FALSE, val |-> <<>>]

\* Faulty variant of altered_count: one per architecture set, whatever its
\* size.
altered_count_architectures(package_map) ==
    LET pairs == {<<a, r>> : a \in DOMAIN package_map, r \in UNION {DOMAIN package_map[b] : b \in DOMAIN package_map}}
        cells == {p \in pairs : p[2] \in DOMAIN package_map[p[1]]}
    IN  Cardinality(cells)

\* Faulty variant of altered_count: a (name, architecture) pair counts once,
\* under however many actions it occurs.
altered_count_distinct_pairs(package_map) ==
    Cardinality(UNION {{<<name, r>> : name \in package_map[a][r]} :
                          <<a, r>> \in {p \in (DOMAIN package_map) \X UNION {DOMAIN package_map[b] : b \in DOMAIN package_map} :
                                            p[2] \in DOMAIN package_map[p[1]]}})

\* The altered count of finalize_entry: the sizes of all package sets added.
altered_count(package_map) ==
    LET pairs == {<<a, r>> : a \in DOMAIN package_map, r \in UNION {DOMAIN package_map[b] : b \in DOMAIN package_map}}
        cells == {p \in pairs : p[2] \in DOMAIN package_map[p[1]]}
    IN  SumOver(cells, [p \in cells |-> Cardinality(package_map[p[1]][p[2]])])

\* Faulty variant of finalize_entry: the cut keeps MAX_COMMAND_LINE_LEN
\* characters before the ellipsis.
finalize_entry_cut_at_max(entry, idx, package_map) ==
    LET raw == entry.command_line
        cut == IF Len(raw) > MAX_COMMAND_LINE_LEN
               THEN SubSeq(raw, 1, MAX_COMMAND_LINE_LEN) \o COMMAND_LINE_ELLIPSIS
               ELSE raw
        stripped == IF starts_with(cut, APT_PREFIX) THEN SubSeq(cut, 5, Len(cut)) ELSE cut
    IN  [entry EXCEPT !.id = idx,
                      !.command_line = stripped,
                      !.altered = altered_count(package_map),
                      !.affected = package_map]

\* finalize_entry (history.rs).
finalize_entry(entry, idx, package_map) ==
    LET raw == entry.command_line
        cut == IF Len(raw) > MAX_COMMAND_LINE_LEN
               THEN SubSeq(raw, 1, MAX_COMMAND_LINE_LEN - Len(COMMAND_LINE_ELLIPSIS))
                    \o COMMAND_LINE_ELLIPSIS
               ELSE raw
        stripped == IF starts_with(cut, APT_PREFIX) THEN SubSeq(cut, 5, Len(cut)) ELSE cut
    IN  [entry EXCEPT !.id = idx,
                      !.command_line = stripped,
                      !.altered = altered_count(package_map),
                      !.affected = package_map]

(***************************************************************************)
(* The line parser of entries_from_file.                                   *)
(***************************************************************************)
\* line.split(": "), then nth(0) and last(): the descriptor is the first
\* segment, the value the last of the remaining ones (none: panic).
line_descriptor(line) == split(line, FIELD_SEPARATOR)[1]

line_value(line) ==
    LET fields == split(line, FIELD_SEPARATOR)
    IN  IF Len(fields) < 2 THEN [ok |-> FALSE, val |-> <<>>]
        ELSE [ok |-> TRUE, val |-> fields[Len(fields)]]

\* Faulty variant of apply_field: a line with an unknown descriptor is
\* skipped.
apply_field_lenient(ent, pmap, descriptor, value) ==
    IF descriptor = K_Commandline
    THEN [ok |-> TRUE, entry |-> [ent EXCEPT !.command_line = value], package_map |-> pmap]
    ELSE IF descriptor = K_EndDate
    THEN LET t == parse_from_str(value)
         IN  IF t.ok THEN [ok |-> TRUE, entry |-> [ent EXCEPT !.end_date = t.val], package_map |-> pmap]
             ELSE [ok |-> FALSE, entry |-> ent, package_map |-> pmap]
    ELSE IF descriptor = K_StartDate
    THEN LET t == parse_from_str(value)
         IN  IF t.ok THEN [ok |-> TRUE, entry |-> [ent EXCEPT !.start_date = t.val], package_map |-> pmap]
             ELSE [ok |-> FALSE, entry |-> ent, package_map |-> pmap]
    ELSE IF descriptor \in ActionKeys
    THEN LET p == packages_from_action_line(value)
         IN  IF p.ok THEN [ok |-> TRUE, entry |-> ent, package_map |-> Put(pmap, descriptor, p.val)]
             ELSE [ok |-> FALSE, entry |-> ent, package_map |-> pmap]
    ELSE [ok |-> TRUE, entry |-> ent, package_map |-> pmap]

\* The match on the descriptor: the new entry and package map, or a panic.
apply_field(ent, pmap, descriptor, value) ==
    IF descriptor = K_Commandline
    THEN [ok |-> TRUE, entry |-> [ent EXCEPT !.command_line = value], package_map |-> pmap]
    ELSE IF descriptor = K_EndDate
    THEN LET t == parse_from_str(value)
         IN  IF t.ok THEN [ok |-> TRUE, entry |-> [ent EXCEPT !.end_date = t.val], package_map |-> pmap]
             ELSE [ok |-> FALSE, entry |-> ent, package_map |-> pmap]
    ELSE IF descriptor = K_StartDate
    THEN LET t == parse_from_str(value)
         IN  IF t.ok THEN [ok |-> TRUE, entry |-> [ent EXCEPT !.start_date = t.val], package_map |-> pmap]
             ELSE [ok |-> FALSE, entry |-> ent, package_map |-> pmap]
    ELSE IF descriptor \in ActionKeys
    THEN LET p == packages_from_action_line(value)
         IN  IF p.ok THEN [ok |-> TRUE, entry |-> ent, package_map |-> Put(pmap, descriptor, p.val)]
             ELSE [ok |-> FALSE, entry |-> ent, package_map |-> pmap]
    ELSE IF descriptor \in {K_Error, K_RequestedBy}
    THEN [ok |-> TRUE, entry |-> ent, package_map |-> pmap]
    ELSE [ok |-> FALSE, entry |-> ent, package_map |-> pmap]

(***************************************************************************)
(* The lines a log file of the model may hold.                             *)
(***************************************************************************)
L_blank == <<>>
\* "Commandline: apt i"
L_cmd_apt == <<"C","o","m","m","a","n","d","l","i","n","e",":"," ","a","p","t"," ","i">>
\* "Commandline: x: y"
L_cmd_colon == <<"C","o","m","m","a","n","d","l","i","n","e",":"," ","x",":"," ","y">>
\* "Install: a:x, b:x (1, 2)"
L_install_ab == <<"I","n","s","t","a","l","l",":"," ","a",":","x",","," ","b",":","x"," ","(","1",","," ","2",")">>
\* "Install: c:x"
L_install_c == <<"I","n","s","t","a","l","l",":"," ","c",":","x">>
\* "Remove: a:x"
L_remove_a == <<"R","e","m","o","v","e",":"," ","a",":","x">>
\* "Error: e"
L_error == <<"E","r","r","o","r",":"," ","e">>
\* "Foo: f"
L_unknown == <<"F","o","o",":"," ","f">>

LogLines == {L_blank, L_cmd_apt, L_cmd_colon, L_install_ab, L_install_c,
             L_remove_a, L_error, L_unknown}

(***************************************************************************)
(* State.                                                                  *)
(***************************************************************************)
VARIABLES
    dir_names,      \* the file names in /var/log/apt
    now,            \* the wall clock of the run
    lineset,        \* the lines the log files of the run are made of
    pc,             \* position of the run
    history_files,  \* history_entries: the candidate files
    file_pos,       \* history_entries: index of the file being parsed
    combined,       \* history_entries: the transactions of all files so far
    id,             \* history_entries: the next id
    entries,        \* entries_from_file: the transactions of this file
    entry,          \* entries_from_file: the record in progress
    index,          \* entries_from_file: the id of the record in progress
    seen_entry,     \* entries_from_file: the first blank line was seen
    package_map,    \* entries_from_file: the packages of the record in progress
    total_read,     \* number of lines read in the run
    nread,          \* number of lines read from the current file
    record_lines,   \* the lines read since the last record was emitted
    entries_src,    \* for each of entries: its file and its lines
    combined_src,   \* for each of combined: its file and its lines
    file_log,       \* for each file parsed: what its parse read and returned
    nblank,         \* number of blank lines read from the current file
    query_some,     \* matching_entries: the query is Some(list), else None
    max_id,         \* matching_entries: the number of transactions
    asked,          \* the selectors consumed by the selector loop
    nsel,           \* how many selectors the loop consumed
    ids,            \* matching_entries: the resolved ids (u32 values)
    packages,       \* matching_entries: the literal package names
    selected,       \* matching_entries: the matching transactions
    index_pc,       \* package index builder: position
    index_tokens,   \* package index builder: the tokens the value was written from
    index_value,    \* package index builder: the action value
    index_out,      \* package index builder: the outcome
    lg_pc,          \* main.rs: position
    lg_entries,     \* main.rs history_entries: entries
    lg_entry,       \* main.rs history_entries: entry
    lg_index,       \* main.rs history_entries: index
    lg_seen_entry,  \* main.rs history_entries: seen_entry
    lg_read,        \* main.rs history_entries: number of lines read
    lg_arg,         \* main.rs info: args.id
    lg_out,         \* main.rs info: the outcome
    reverse,        \* list: the reverse flag
    rows            \* list: the rows handed to the table

parseVars == <<dir_names, now, lineset, pc, history_files, file_pos, combined, id,
               entries, entry, index, seen_entry, package_map, total_read, nread,
               record_lines, entries_src, combined_src, file_log, nblank>>

queryVars == <<query_some, max_id, asked, nsel, ids, packages, selected>>

indexVars == <<index_pc, index_tokens, index_value, index_out>>

legacyVars == <<lg_pc, lg_entries, lg_entry, lg_index, lg_seen_entry, lg_read, lg_arg, lg_out>>

listVars == <<reverse, rows>>

otherVars == <<indexVars, legacyVars, listVars>>

vars == <<parseVars, queryVars, otherVars>>

\* main.rs HistoryEntry::new / Default.
LegacyEntry_new ==
    [action |-> <<>>, affected |-> <<>>, altered |-> 0, command_line |-> <<>>,
     end_date |-> <<>>, id |-> 0, start_date |-> <<>>]

\* The parts of the program that are not running.
ParseIdle ==
    /\ dir_names = {}
    /\ now = CHOOSE t \in Clock : TRUE
    /\ lineset = {}
    /\ pc = "idle"
    /\ history_files = <<>>
    /\ file_pos = 0
    /\ combined = <<>>
    /\ id = 1
    /\ entries = <<>>
    /\ entry = HistoryEntry_new(now)
    /\ index = 0
    /\ seen_entry = FALSE
    /\ package_map = EmptyMap
    /\ total_read = 0
    /\ nread = 0
    /\ record_lines = <<>>
    /\ entries_src = <<>>
    /\ combined_src = <<>>
    /\ file_log = <<>>
    /\ nblank = 0

QueryIdle ==
    /\ query_some = FALSE
    /\ max_id = 0
    /\ asked = {}
    /\ nsel = 0
    /\ ids = {}
    /\ packages = {}
    /\ selected = <<>>

IndexIdle ==
    /\ index_pc = "idle"
    /\ index_tokens = <<>>
    /\ index_value = <<>>
    /\ index_out = [ok |-> TRUE, val |-> EmptyMap, entry |-> HistoryEntry_new(now)]

LegacyIdle ==
    /\ lg_pc = "idle"
    /\ lg_entries = <<>>
    /\ lg_entry = LegacyEntry_new
    /\ lg_index = 1
    /\ lg_seen_entry = FALSE
    /\ lg_read = 0
    /\ lg_arg = 0
    /\ lg_out = [kind |-> "none", action |-> <<>>, affected |-> <<>>]

ListIdle ==
    /\ reverse = FALSE
    /\ rows = <<>>

Directories == {d \in SUBSET FileNames : Cardinality(d) <= MaxFiles}

InitParse(dirs, lines) ==
    /\ dir_names \in dirs
    /\ now \in Clock
    /\ lineset = lines
    /\ pc = "read_dir"
    /\ history_files = <<>>
    /\ file_pos = 0
    /\ combined = <<>>
    /\ id = 1
    /\ entries = <<>>
    /\ entry = HistoryEntry_new(now)
    /\ index = 0
    /\ seen_entry = FALSE
    /\ package_map = EmptyMap
    /\ total_read = 0
    /\ nread = 0
    /\ record_lines = <<>>
    /\ entries_src = <<>>
    /\ combined_src = <<>>
    /\ file_log = <<>>
    /\ nblank = 0
    /\ QueryIdle
    /\ IndexIdle
    /\ LegacyIdle
    /\ ListIdle

Init == InitParse(Directories, LogLines)

(***************************************************************************)
(* history_entries and entries_from_file, step by step.                    *)
(***************************************************************************)
\* The read_dir loop: the directory is listed in some order and the names
\* matching the pattern are kept, in that order.
ReadDir ==
    /\ pc = "read_dir"
    /\ \E listing \in Listings(dir_names) :
           history_files' = select_candidates(listing)
    /\ pc' = "sort"
    /\ UNCHANGED <<dir_names, now, lineset, file_pos, combined, id, entries, entry,
                   index, seen_entry, package_map, total_read, nread, record_lines,
                   entries_src, combined_src, file_log, nblank, queryVars, otherVars>>

\* history_files.sort_by(sort_log_files); combined and id are initialised.
SortFiles ==
    /\ pc = "sort"
    /\ LET r == sort_by(history_files)
       IN  IF r.ok
           THEN /\ history_files' = r.val
                /\ file_pos' = 1
                /\ pc' = IF r.val = <<>> THEN "done" ELSE "open"
           ELSE /\ pc' = "panic"
                /\ UNCHANGED <<history_files, file_pos>>
    /\ UNCHANGED <<dir_names, now, lineset, combined, id, entries, entry, index,
                   seen_entry, package_map, total_read, nread, record_lines,
                   entries_src, combined_src, file_log, nblank, queryVars, otherVars>>

\* entries_from_file(file, id) up to its line loop.
OpenFile ==
    /\ pc = "open"
    /\ entries' = <<>>
    /\ entry' = HistoryEntry_new(now)
    /\ index' = id
    /\ seen_entry' = FALSE
    /\ package_map' = EmptyMap
    /\ nread' = 0
    /\ record_lines' = <<>>
    /\ entries_src' = <<>>
    /\ nblank' = 0
    /\ pc' = "lines"
    /\ UNCHANGED <<dir_names, now, lineset, history_files, file_pos, combined, id,
                   total_read, combined_src, file_log, queryVars, otherVars>>

\* Faulty variant of first_blank_line: no blank line is set aside.
first_blank_line_never(seen) == FALSE

\* Whether a blank line is the first one of its file: `!seen_entry`.
first_blank_line(seen) == ~seen

\* Faulty variant of clear: the map keeps its packages.
clear_nothing(pmap) == pmap

\* package_map.clear()
clear(pmap) == EmptyMap

\* One iteration of the line loop on a blank line.
ReadBlankLine ==
    /\ pc = "lines"
    /\ total_read < MaxLines
    /\ L_blank \in lineset
    /\ total_read' = total_read + 1
    /\ nread' = nread + 1
    /\ nblank' = nblank + 1
    /\ IF first_blank_line(seen_entry)
       THEN /\ seen_entry' = TRUE
            /\ record_lines' = Append(record_lines, L_blank)
            /\ UNCHANGED <<entries, entry, index, package_map, entries_src>>
       ELSE /\ entries' = Append(entries, finalize_entry(entry, index, package_map))
            /\ entries_src' = Append(entries_src,
                                     [file |-> file_pos, lines |-> record_lines])
            /\ package_map' = clear(package_map)
            /\ index' = index + 1
            /\ entry' = HistoryEntry_new(now)
            /\ record_lines' = <<>>
            /\ UNCHANGED seen_entry
    /\ UNCHANGED <<dir_names, now, lineset, pc, history_files, file_pos, combined, id,
                   combined_src, file_log, queryVars, otherVars>>

\* One iteration of the line loop on a non-blank line.
ReadFieldLine(line) ==
    /\ pc = "lines"
    /\ total_read < MaxLines
    /\ line \in lineset
    /\ line # L_blank
    /\ total_read' = total_read + 1
    /\ nread' = nread + 1
    /\ record_lines' = Append(record_lines, line)
    /\ LET value == line_value(line)
           r     == apply_field(entry, package_map, line_descriptor(line), value.val)
       IN  IF value.ok /\ r.ok
           THEN /\ entry' = r.entry
                /\ package_map' = r.package_map
                /\ UNCHANGED pc
           ELSE /\ pc' = "panic"
                /\ UNCHANGED <<entry, package_map>>
    /\ UNCHANGED <<dir_names, now, lineset, history_files, file_pos, combined, id,
                   entries, index, seen_entry, entries_src, combined_src, file_log,
                   nblank, queryVars, otherVars>>

\* Whether the record in progress is emitted at the end of the stream.
emit_at_eof_always(ent) == TRUE

emit_at_eof(ent) == ent.command_line # <<>>

\* Faulty variant of next_id: one id is skipped per file.
next_id_skipping(cur, file_entries) == cur + Len(file_entries) + 1

\* The id after a file: id += num_entries (nothing for an empty result).
next_id(cur, file_entries) ==
    IF Len(file_entries) = 0 THEN cur ELSE cur + Len(file_entries)

\* End of the stream: the last record, the return to history_entries (the
\* locals of entries_from_file are dropped), and there the extension of
\* combined and the advance of id.
EndOfFile ==
    /\ pc = "lines"
    /\ LET emit == emit_at_eof(entry)
           ents == IF emit
                   THEN Append(entries, finalize_entry(entry, index, package_map))
                   ELSE entries
           srcs == IF emit
                   THEN Append(entries_src, [file |-> file_pos, lines |-> record_lines])
                   ELSE entries_src
       IN  /\ combined' = combined \o ents
           /\ combined_src' = combined_src \o srcs
           /\ id' = next_id(id, ents)
           /\ file_log' = Append(file_log,
                                 [nblank |-> nblank,
                                  nlines |-> nread, nentries |-> Len(ents),
                                  start_id |-> id, eof_command_line |-> entry.command_line,
                                  eof_emitted |-> Len(ents) > Len(entries)])
    /\ entries' = <<>>
    /\ entries_src' = <<>>
    /\ entry' = HistoryEntry_new(now)
    /\ index' = 0
    /\ seen_entry' = FALSE
    /\ package_map' = EmptyMap
    /\ nread' = 0
    /\ nblank' = 0
    /\ record_lines' = <<>>
    /\ file_pos' = file_pos + 1
    /\ pc' = IF file_pos + 1 > Len(history_files) THEN "done" ELSE "open"
    /\ UNCHANGED <<dir_names, now, lineset, history_files, total_read, queryVars, otherVars>>

(***************************************************************************)
(* The query engine: matches and matching_entries.                         *)
(***************************************************************************)
\* The selectors a query of the model may hold: "0", "-1", "-3", "1", "3",
\* and the package names "a" and "c".
Selectors == {<<"0">>, <<"-","1">>, <<"-","3">>, <<"1">>, <<"3">>, <<"a">>, <<"c">>}

\* Largest number of selectors in a query.
MaxSelectors == 2

\* The directory the queries run over: history.log and history.log.1.gz.
QueryDirectory == {CURRENT_HISTORY_FILE, RotatedName(1)}

\* The lines of the log files the queries run over.
QueryLines == {L_blank, L_cmd_apt, L_install_ab, L_install_c}

\* `as u32`: the 32-bit pattern, kept as two 16-bit halves.
as_u32(t) == [hi |-> (t \div 65536) % 65536, lo |-> t % 65536]

\* Faulty variant of resolve_id: only negative selectors are relative.
resolve_id_negative_only(tid, n) == IF tid < 0 THEN n + tid ELSE tid

\* The id a parsed selector stands for: relative when tid <= 0.
resolve_id(tid, n) == IF tid <= 0 THEN n + tid ELSE tid

\* Faulty variant of matches: the package names are not looked at.
matches_ids_only(ent, idset, pkgs) == as_u32(ent.id) \in idset

\* matches
matches(ent, idset, pkgs) ==
    \/ as_u32(ent.id) \in idset
    \/ \E action \in DOMAIN ent.affected :
           \E arch \in DOMAIN ent.affected[action] :
               pkgs \cap ent.affected[action][arch] # {}

\* Faulty variant of filter_entries: the newest match comes first.
filter_entries_newest_first(ents, idset, pkgs) ==
    LET kept == SelectSeq(ents, LAMBDA e : matches(e, idset, pkgs))
    IN  [i \in 1..Len(kept) |-> kept[Len(kept) + 1 - i]]

\* entries.iter().filter(matches).cloned().collect()
filter_entries(ents, idset, pkgs) == SelectSeq(ents, LAMBDA e : matches(e, idset, pkgs))

\* matching_entries, after history_entries returned: max_id and the query.
BeginMatching ==
    /\ pc = "done"
    /\ max_id' = Len(combined)
    /\ query_some' \in BOOLEAN
    /\ asked' = {}
    /\ nsel' = 0
    /\ ids' = {}
    /\ packages' = {}
    /\ pc' = "resolve"
    /\ UNCHANGED <<dir_names, now, lineset, history_files, file_pos, combined, id,
                   entries, entry, index, seen_entry, package_map, total_read, nread,
                   record_lines, entries_src, combined_src, file_log, nblank, selected,
                   otherVars>>

\* One iteration of the selector loop.  Without a query the only selector
\* is the fallback, max_id.to_string().
ResolveSelector(sel) ==
    /\ pc = "resolve"
    /\ IF query_some THEN nsel < MaxSelectors /\ sel \in Selectors
       ELSE nsel = 0 /\ sel = to_string(max_id)
    /\ nsel' = nsel + 1
    /\ asked' = asked \cup {sel}
    /\ LET t == parse_i32(sel)
       IN  IF t.ok
           THEN /\ ids' = ids \cup {as_u32(resolve_id(t.val, max_id))}
                /\ UNCHANGED packages
           ELSE /\ packages' = packages \cup {sel}
                /\ UNCHANGED ids
    /\ UNCHANGED <<parseVars, query_some, max_id, selected, otherVars>>

\* The filter over the entries, in their order.
FilterEntries ==
    /\ pc = "resolve"
    /\ query_some \/ nsel = 1
    /\ selected' = filter_entries(combined, ids, packages)
    /\ pc' = "matched"
    /\ UNCHANGED <<dir_names, now, lineset, history_files, file_pos, combined, id,
                   entries, entry, index, seen_entry, package_map, total_read, nread,
                   record_lines, entries_src, combined_src, file_log, nblank, query_some,
                   max_id, asked, nsel, ids, packages, otherVars>>

Next ==
    \/ ReadDir
    \/ SortFiles
    \/ OpenFile
    \/ ReadBlankLine
    \/ \E line \in lineset : ReadFieldLine(line)
    \/ EndOfFile

Spec == Init /\ [][Next]_vars

\* The runs over a directory of two files, history.log.1.gz and history.log.
InitRecords == InitParse({QueryDirectory}, LogLines)

SpecRecords == InitRecords /\ [][Next]_vars

\* The runs of matching_entries: the parse, then the query.
InitQuery == InitParse({QueryDirectory}, QueryLines)

NextQuery ==
    \/ Next
    \/ BeginMatching
    \/ \E sel \in Selectors \cup {to_string(n) : n \in 0..MaxLines} : ResolveSelector(sel)
    \/ FilterEntries

SpecQuery == InitQuery /\ [][NextQuery]_vars

(***************************************************************************)
(* list: the rows of the table, from the whole store or from a query.      *)
(***************************************************************************)
\* "Reinstall: a:x"
L_reinstall_a == <<"R","e","i","n","s","t","a","l","l",":"," ","a",":","x">>

\* The lines of the log files the listings run over.
ListLines == {L_blank, L_cmd_apt, L_install_c, L_remove_a, L_reinstall_a}

UpperAlphabet == <<"A","B","C","D","E","F","G","H","I","J","K","L","M",
                   "N","O","P","Q","R","S","T","U","V","W","X","Y","Z">>

\* The first characters of the action keys, one per key, as sorted by
\* initials.sort().
RECURSIVE sorted_initials(_, _)
sorted_initials(actions, i) ==
    IF i > Len(UpperAlphabet) THEN <<>>
    ELSE [n \in 1..Cardinality({a \in actions : a[1] = UpperAlphabet[i]}) |-> <<UpperAlphabet[i]>>]
         \o sorted_initials(actions, i + 1)

\* [String]::join
RECURSIVE join(_, _)
join(v, sep) ==
    IF v = <<>> THEN <<>>
    ELSE IF Len(v) = 1 THEN v[1]
    ELSE v[1] \o sep \o join(Tail(v), sep)

\* The Action(s) cell of a row: the key of a one-key affected map, else
\* the sorted initials of the keys joined with ", ".
action_summary(affected) ==
    LET actions == DOMAIN affected
    IN  IF Cardinality(actions) = 1 THEN CHOOSE a \in actions : TRUE
        ELSE join(sorted_initials(actions, 1), <<",", " ">>)

\* A number in decimal, padded with zeros to w digits.
RECURSIVE pad(_, _)
pad(n, w) == IF w <= 1 THEN to_string(n) ELSE
             IF Len(to_string(n)) >= w THEN to_string(n)
             ELSE [i \in 1..(w - Len(to_string(n))) |-> "0"] \o to_string(n)

\* NaiveDateTime::format(LIST_DATE_FORMAT): "%F %H:%M".
format_list_date(t) ==
    pad(t.y, 4) \o <<"-">> \o pad(t.mo, 2) \o <<"-">> \o pad(t.d, 2) \o <<" ">>
    \o pad(t.h, 2) \o <<":">> \o pad(t.mi, 2)

\* One row of the table.
list_row(e) ==
    [id |-> e.id, command_line |-> e.command_line,
     start_date |-> format_list_date(e.start_date),
     actions |-> action_summary(e.affected), altered |-> e.altered]

\* Vec::reverse
reversed(v) == [i \in 1..Len(v) |-> v[Len(v) + 1 - i]]

\* Faulty variant of list_order: the flag is not looked at.
list_order_ascending(sel, rev) == sel

\* The order of the rows: the entries are reversed unless the flag is set.
list_order(sel, rev) == IF ~rev THEN reversed(sel) ELSE sel

\* list, after history_entries (no query) or matching_entries (a query)
\* returned.
ListRows(rev) ==
    /\ \/ pc = "done"
       \/ pc = "matched" /\ query_some
    /\ reverse' = rev
    /\ LET sel == list_order(IF pc = "matched" THEN selected ELSE combined, rev)
       IN  rows' = [i \in 1..Len(sel) |-> list_row(sel[i])]
    /\ pc' = "listed"
    /\ UNCHANGED <<dir_names, now, lineset, history_files, file_pos, combined, id,
                   entries, entry, index, seen_entry, package_map, total_read, nread,
                   record_lines, entries_src, combined_src, file_log, nblank, queryVars,
                   indexVars, legacyVars>>

InitList == InitParse({{CURRENT_HISTORY_FILE}}, ListLines)

NextList ==
    \/ NextQuery
    \/ \E rev \in BOOLEAN : ListRows(rev)

SpecList == InitList /\ [][NextList]_vars

(***************************************************************************)
(* The runs over one file of records with and without their date lines.    *)
(***************************************************************************)
\* "Start-Date: 2024-01-01  10:00:00"
L_start_date == K_StartDate \o FIELD_SEPARATOR
                \o <<"2","0","2","4","-","0","1","-","0","1"," "," ","1","0",":","0","0",":","0","0">>
\* "End-Date: 2024-01-01  10:00:05"
L_end_date == K_EndDate \o FIELD_SEPARATOR
              \o <<"2","0","2","4","-","0","1","-","0","1"," "," ","1","0",":","0","0",":","0","5">>

DateLines == {L_blank, L_cmd_apt, L_start_date, L_end_date, L_install_c}

InitDates == InitParse({{CURRENT_HISTORY_FILE}}, DateLines)

SpecDates == InitDates /\ [][Next]_vars

(***************************************************************************)
(* The runs over directories that hold other entries besides the logs.     *)
(***************************************************************************)
\* history.log.bak, history.log.1, xhistory.log and term.log.
OtherNames ==
    {CURRENT_HISTORY_FILE \o <<".","b","a","k">>,
     CURRENT_HISTORY_FILE \o <<".","1">>,
     <<"x">> \o CURRENT_HISTORY_FILE,
     <<"t","e","r","m",".","l","o","g">>}

MixedDirectories ==
    {d \in SUBSET (FileNames \cup OtherNames) : Cardinality(d) <= MaxFiles}

\* The lines of the log files of these runs.
DiscoveryLines == {L_blank, L_cmd_apt, L_install_c}

InitDiscovery == InitParse(MixedDirectories, DiscoveryLines)

SpecDiscovery == InitDiscovery /\ [][Next]_vars

(***************************************************************************)
(* The runs over one file of Commandline lines, short and long.            *)
(***************************************************************************)
\* The character c, n times.
Repeat(c, n) == [i \in 1..n |-> c]

\* Command lines of 5, MAX - 1, MAX and MAX + 1 characters, with and
\* without the "apt " prefix.
CommandLineValues ==
    {pre \o Repeat("z", n - Len(pre)) :
        pre \in {<<>>, APT_PREFIX},
        n \in {5, MAX_COMMAND_LINE_LEN - 1, MAX_COMMAND_LINE_LEN, MAX_COMMAND_LINE_LEN + 1}}

CommandLineLines ==
    {L_blank} \cup {K_Commandline \o FIELD_SEPARATOR \o v : v \in CommandLineValues}

InitCommandLine == InitParse({{CURRENT_HISTORY_FILE}}, CommandLineLines)

SpecCommandLine == InitCommandLine /\ [][Next]_vars

(***************************************************************************)
(* The package index builder on its own: one Install line of one record.   *)
(***************************************************************************)
\* Largest number of tokens in a written action value.
MaxTokens == 2
\* Largest length of an action value made of arbitrary characters.
MaxRaw == 3

PkgNames == {<<"p","k","g","A">>, <<"p","k","g","B">>}

Architectures == {<<"a","m","d","6","4">>, <<"i","3","8","6">>}

\* No version group, "(1.0)", "(1.0, 2.0)" and "(1:1.0)".
VersionGroups == {<<>>, <<"(","1",".","0",")">>,
                  <<"(","1",".","0",","," ","2",".","0",")">>,
                  <<"(","1",":","1",".","0",")">>}

Tokens == [name : PkgNames, arch : Architectures, version : VersionGroups]

TokenLists == UNION {[1..n -> Tokens] : n \in 1..MaxTokens}

\* name:architecture, then a space and the version group if there is one.
RenderToken(t) ==
    t.name \o <<":">> \o t.arch \o (IF t.version = <<>> THEN <<>> ELSE <<" ">> \o t.version)

\* The tokens separated by ", ".
RECURSIVE RenderTokens(_)
RenderTokens(ts) ==
    IF Len(ts) = 1 THEN RenderToken(ts[1])
    ELSE RenderTokens(Front(ts)) \o <<",", " ">> \o RenderToken(ts[Len(ts)])

RawAlphabet == {"a", ":", ",", "(", ")", " "}

RawValues == UNION {[1..n -> RawAlphabet] : n \in 0..MaxRaw}

InitIndex ==
    /\ ParseIdle
    /\ QueryIdle
    /\ LegacyIdle
    /\ ListIdle
    /\ index_pc = "value"
    /\ \/ index_tokens \in TokenLists /\ index_value = RenderTokens(index_tokens)
       \/ index_tokens = <<>> /\ index_value \in RawValues
    /\ index_out = [ok |-> TRUE, val |-> EmptyMap, entry |-> HistoryEntry_new(now)]

\* The line "Install: <value>" is read into a new record and the record is
\* finalized with id 1.
BuildIndex ==
    /\ index_pc = "value"
    /\ LET r == apply_field(HistoryEntry_new(now), EmptyMap, K_Install, index_value)
       IN  index_out' =
               [ok |-> r.ok,
                val |-> IF r.ok THEN r.package_map[K_Install] ELSE EmptyMap,
                entry |-> IF r.ok THEN finalize_entry(r.entry, 1, r.package_map)
                          ELSE r.entry]
    /\ index_pc' = "built"
    /\ UNCHANGED <<parseVars, queryVars, legacyVars, listVars, index_tokens, index_value>>

NextIndex == BuildIndex

SpecIndex == InitIndex /\ [][NextIndex]_vars

(***************************************************************************)
(* The older single-file tool (main.rs): history_entries and info.         *)
(***************************************************************************)
\* main.rs finalize_entry: altered is the number of "),")-separated parts
\* of the affected text.
legacy_finalize_entry(ent, idx) ==
    LET raw == ent.command_line
        cut == IF Len(raw) > MAX_COMMAND_LINE_LEN
               THEN SubSeq(raw, 1, MAX_COMMAND_LINE_LEN - Len(COMMAND_LINE_ELLIPSIS))
                    \o COMMAND_LINE_ELLIPSIS
               ELSE raw
        stripped == IF starts_with(cut, APT_PREFIX) THEN SubSeq(cut, 5, Len(cut)) ELSE cut
    IN  [ent EXCEPT !.id = idx,
                    !.command_line = stripped,
                    !.altered = Len(split(ent.affected, <<")", ",">>))]

\* main.rs: the match on the descriptor.
legacy_apply_field(ent, descriptor, value) ==
    IF descriptor = K_Commandline
    THEN [ok |-> TRUE, entry |-> [ent EXCEPT !.command_line = value]]
    ELSE IF descriptor = K_EndDate
    THEN [ok |-> TRUE, entry |-> [ent EXCEPT !.end_date = value]]
    ELSE IF descriptor = K_StartDate
    THEN [ok |-> TRUE, entry |-> [ent EXCEPT !.start_date = value]]
    ELSE IF descriptor \in ActionKeys
    THEN [ok |-> TRUE,
          entry |-> [ent EXCEPT !.action = descriptor,
                                !.affected = IF ent.affected = <<>> THEN value
                                             ELSE <<" ">> \o ent.affected]]
    ELSE IF descriptor \in {K_Error, K_RequestedBy}
    THEN [ok |-> TRUE, entry |-> ent]
    ELSE [ok |-> FALSE, entry |-> ent]

\* str::trim for spaces.
RECURSIVE trim(_)
trim(s) ==
    IF s # <<>> /\ s[1] = " " THEN trim(Tail(s))
    ELSE IF s # <<>> /\ s[Len(s)] = " " THEN trim(Front(s))
    ELSE s

\* One iteration of the character loop of get_affected.
get_affected_char(st, c) ==
    IF c = "("
    THEN [st EXCEPT !.inside_parens = TRUE, !.pkgs = Append(@, trim(st.out)), !.out = <<>>]
    ELSE IF c = ")"
    THEN [st EXCEPT !.inside_parens = FALSE, !.discard_next = TRUE]
    ELSE IF st.inside_parens THEN st
    ELSE IF st.discard_next THEN [st EXCEPT !.discard_next = FALSE]
    ELSE [st EXCEPT !.out = Append(@, c)]

RECURSIVE get_affected_from(_, _, _)
get_affected_from(affected, i, st) ==
    IF i > Len(affected) THEN st
    ELSE get_affected_from(affected, i + 1, get_affected_char(st, affected[i]))

\* main.rs get_affected.
get_affected(affected) ==
    get_affected_from(affected, 1,
                      [out |-> <<>>, discard_next |-> FALSE, inside_parens |-> FALSE,
                       pkgs |-> <<>>]).pkgs

\* The ids `info` may be given: none, or 0 .. MaxLines + 2.
LegacyArgs ==
    {[some |-> FALSE, id |-> 0]} \cup {[some |-> TRUE, id |-> n] : n \in 0..(MaxLines + 2)}

\* How the binary was built: with or without overflow checks.
Builds == {"debug", "release"}

\* `id - 1` on usize: with overflow checks 0 - 1 panics, without them it
\* wraps to usize::MAX, written -1 here (an index no vector has).
legacy_entry_index(n, build) ==
    IF n = 0
    THEN IF build = "debug" THEN [ok |-> FALSE, val |-> 0] ELSE [ok |-> TRUE, val |-> 0 - 1]
    ELSE [ok |-> TRUE, val |-> n - 1]

\* Vec::get: the element at a zero-based index, if there is one.
vec_get(v, i) ==
    IF i >= 0 /\ i < Len(v) THEN [some |-> TRUE, val |-> v[i + 1]]
    ELSE [some |-> FALSE, val |-> LegacyEntry_new]

InitLegacy ==
    /\ ParseIdle
    /\ QueryIdle
    /\ IndexIdle
    /\ ListIdle
    /\ lg_pc = "lines"
    /\ lg_entries = <<>>
    /\ lg_entry = LegacyEntry_new
    /\ lg_index = 1
    /\ lg_seen_entry = FALSE
    /\ lg_read = 0
    /\ lg_arg \in LegacyArgs
    /\ lg_out = [kind |-> "none", action |-> <<>>, affected |-> <<>>]

\* main.rs history_entries: one iteration of the line loop on a blank line.
LegacyReadBlankLine ==
    /\ lg_pc = "lines"
    /\ lg_read < MaxLines
    /\ lg_read' = lg_read + 1
    /\ IF ~lg_seen_entry
       THEN /\ lg_seen_entry' = TRUE
            /\ UNCHANGED <<lg_entries, lg_entry, lg_index>>
       ELSE /\ lg_entries' = Append(lg_entries, legacy_finalize_entry(lg_entry, lg_index))
            /\ lg_index' = lg_index + 1
            /\ lg_entry' = LegacyEntry_new
            /\ UNCHANGED lg_seen_entry
    /\ UNCHANGED <<parseVars, queryVars, indexVars, listVars, lg_pc, lg_arg, lg_out>>

\* main.rs history_entries: one iteration on a non-blank line.
LegacyReadFieldLine(line) ==
    /\ lg_pc = "lines"
    /\ lg_read < MaxLines
    /\ line # L_blank
    /\ lg_read' = lg_read + 1
    /\ LET value == line_value(line)
           r     == legacy_apply_field(lg_entry, line_descriptor(line), value.val)
       IN  IF value.ok /\ r.ok
           THEN /\ lg_entry' = r.entry
                /\ UNCHANGED <<lg_pc, lg_out>>
           ELSE /\ lg_pc' = "panic"
                /\ lg_out' = [lg_out EXCEPT !.kind = "panic"]
                /\ UNCHANGED lg_entry
    /\ UNCHANGED <<parseVars, queryVars, indexVars, listVars, lg_entries, lg_index, lg_seen_entry,
                   lg_arg>>

\* main.rs history_entries: after the loop the record in progress is
\* always finalized and pushed.
LegacyEndOfFile ==
    /\ lg_pc = "lines"
    /\ lg_entries' = Append(lg_entries, legacy_finalize_entry(lg_entry, lg_index))
    /\ lg_pc' = "parsed"
    /\ UNCHANGED <<parseVars, queryVars, indexVars, listVars, lg_entry, lg_index, lg_seen_entry,
                   lg_read, lg_arg, lg_out>>

\* main.rs info, after history_entries returned.
LegacyInfo(build) ==
    /\ lg_pc = "parsed"
    /\ LET position == legacy_entry_index(lg_arg.id, build)
           found    == vec_get(lg_entries, position.val)
       IN  lg_out' = IF ~lg_arg.some \/ ~position.ok \/ ~found.some
                     THEN [kind |-> "panic", action |-> <<>>, affected |-> <<>>]
                     ELSE [kind |-> "printed", action |-> found.val.action,
                           affected |-> get_affected(found.val.affected)]
    /\ lg_pc' = "info_done"
    /\ UNCHANGED <<parseVars, queryVars, indexVars, listVars, lg_entries, lg_entry, lg_index,
                   lg_seen_entry, lg_read, lg_arg>>

NextLegacy ==
    \/ LegacyReadBlankLine
    \/ \E line \in LogLines : LegacyReadFieldLine(line)
    \/ LegacyEndOfFile
    \/ \E build \in Builds : LegacyInfo(build)

SpecLegacy == InitLegacy /\ [][NextLegacy]_vars

(***************************************************************************)
(* Properties.                                                             *)
(***************************************************************************)
\* The positions at which history_entries has sorted its files.
AfterSort == pc \in {"open", "lines", "done", "resolve", "matched", "listed"}

\* The positions at which history_entries has returned.
Returned == pc \in {"done", "resolve", "matched", "listed"}

\* The rotation suffix of a rotated file name of the model.
RotationOf(name) == CHOOSE n \in 1..(MaxRot + 1) : RotatedName(n) = name

\* C1: the transactions of all files parsed so far carry the ids 1, 2, ...
\* in order (the k-th has id k, also after a file that yielded none), the
\* records of the file being parsed continue that numbering, and a
\* transaction of an earlier file has a smaller id than one of a later file.
C1_IdsDenseInFileOrder ==
    /\ \A k \in 1..Len(combined) : combined[k].id = k
    /\ \A k \in 1..Len(entries) : entries[k].id = Len(combined) + k
    /\ Returned => id = Len(combined) + 1
    /\ \A i, j \in 1..Len(combined) :
           combined_src[i].file < combined_src[j].file => combined[i].id < combined[j].id

\* Three files were parsed: the first and the last yielded transactions,
\* the one between them none.
C1_Witness ==
    /\ pc = "done"
    /\ Len(file_log) = 3
    /\ file_log[1].nentries >= 1
    /\ file_log[2].nentries = 0
    /\ file_log[3].nentries >= 1
    /\ combined[Len(combined)].id = Len(combined)

ValueAfterFirstSeparator(line) ==
    SubSeq(line, find(line, FIELD_SEPARATOR) + Len(FIELD_SEPARATOR), Len(line))

\* The text before the first ": " of a line.
KeyBeforeFirstSeparator(line) == SubSeq(line, 1, find(line, FIELD_SEPARATOR) - 1)

\* C3 as claimed: every package of every action line of a record is in the
\* emitted transaction's affected map under that action and architecture
\* (the map of an action is the union over its lines).
C3_RepeatedActionUnion ==
    \A k \in 1..Len(combined) :
        \A n \in 1..Len(combined_src[k].lines) :
            LET line == combined_src[k].lines[n]
                key  == KeyBeforeFirstSeparator(line)
                pkgs == packages_from_action_line(ValueAfterFirstSeparator(line))
            IN  (line # L_blank /\ key \in ActionKeys /\ pkgs.ok) =>
                    /\ key \in DOMAIN combined[k].affected
                    /\ \A arch \in DOMAIN pkgs.val :
                           /\ arch \in DOMAIN combined[k].affected[key]
                           /\ pkgs.val[arch] \subseteq combined[k].affected[key][arch]

\* C4 as claimed: after a Commandline line is read, the command line of the
\* record in progress is all of the text after the first ": " of the line.
C4_ValueIsEverythingAfterFirstSeparator ==
    (pc = "lines" /\ record_lines # <<>>) =>
        LET line == record_lines[Len(record_lines)]
        IN  (line # L_blank /\ KeyBeforeFirstSeparator(line) = K_Commandline) =>
                entry.command_line = ValueAfterFirstSeparator(line)

\* The selectors of the query that parse as integers, and the id each one
\* stands for with N transactions in the store.
IntegerSelectors == {sel \in asked : parse_i32(sel).ok}

TargetId(sel) ==
    LET s == parse_i32(sel).val IN IF s <= 0 THEN Len(combined) + s ELSE s

SelectedIds == {selected[k].id : k \in 1..Len(selected)}

\* C5: with N transactions, an integer selector s selects the transaction
\* with id N + s when s <= 0 and with id s when s > 0; a selector whose id
\* is outside 1..N selects nothing (a query of integer selectors returns
\* exactly the transactions with the in-range ids, and the query completes).
C5_IntegerSelectorResolution ==
    pc = "matched" =>
        /\ \A sel \in IntegerSelectors :
               TargetId(sel) \in 1..Len(combined) => TargetId(sel) \in SelectedIds
        /\ asked = IntegerSelectors =>
               SelectedIds = {r \in 1..Len(combined) :
                                 \E sel \in asked : TargetId(sel) = r}

\* Of two transactions, the query "0", "-3" returned the newest alone.
C5_Witness ==
    /\ pc = "matched"
    /\ Len(combined) = 2
    /\ asked = {<<"0">>, <<"-", "3">>}
    /\ selected = <<combined[2]>>

\* Whether a transaction's affected index holds the package name.
AffectedContains(ent, name) ==
    \E action \in DOMAIN ent.affected :
        \E arch \in DOMAIN ent.affected[action] : name \in ent.affected[action][arch]

\* C6: a transaction is returned exactly when an integer selector stands
\* for its id or a non-integer selector is a package name of its affected
\* index, under any action and architecture.
C6_MatchIffIdOrPackage ==
    pc = "matched" =>
        \A k \in 1..Len(combined) :
            (combined[k] \in Range(selected)) <=>
                \/ \E sel \in IntegerSelectors : TargetId(sel) = combined[k].id
                \/ \E sel \in asked \ IntegerSelectors : AffectedContains(combined[k], sel)

\* The query "c" over two transactions returned just the one that installs c.
C6_Witness ==
    /\ pc = "matched"
    /\ Len(combined) = 2
    /\ asked = {<<"c">>}
    /\ Len(selected) = 1
    /\ AffectedContains(selected[1], <<"c">>)
    /\ \E k \in 1..2 : ~AffectedContains(combined[k], <<"c">>)

\* The id the file parsed after the k-th one started from.
IdAfterFile(k) == IF k < Len(file_log) THEN file_log[k + 1].start_id ELSE id

C7_LegacyInfoOutOfRangeIsSignalled ==
    (lg_pc = "info_done"
     /\ (~lg_arg.some \/ lg_arg.id = 0 \/ lg_arg.id > Len(lg_entries))) =>
        lg_out.kind = "no_such_entry"

\* The index the claim's example and every written value stand for.
ExpectedIndex(ts) ==
    [arch \in {ts[i].arch : i \in 1..Len(ts)} |->
        {ts[i].name : i \in {j \in 1..Len(ts) : ts[j].arch = arch}}]

RECURSIVE outside_parens(_, _)
outside_parens(s, inside) ==
    IF s = <<>> THEN <<>>
    ELSE IF s[1] = "(" THEN outside_parens(Tail(s), TRUE)
    ELSE IF s[1] = ")" THEN outside_parens(Tail(s), FALSE)
    ELSE IF inside \/ s[1] = " " THEN outside_parens(Tail(s), inside)
    ELSE <<s[1]>> \o outside_parens(Tail(s), inside)

\* The tokens of a value: what the commas outside parentheses separate.
CompletedTokens(value) == split(outside_parens(value, FALSE), <<",">>)

\* A token with no ':' (the empty token too) or with nothing before its ':'.
LacksPart(token) == find(token, <<":">>) \in {0, 1}

\* C10 as claimed: the builder fails whenever a token of the value has no
\* ':', has an empty name before its ':', or is empty.
C10_MissingPartFails ==
    (index_pc = "built"
     /\ \E i \in 1..Len(CompletedTokens(index_value)) :
            LacksPart(CompletedTokens(index_value)[i])) =>
        ~index_out.ok

\* The transactions emitted so far: those of the files parsed and those of
\* the file being parsed.
Emitted == combined \o entries

EmittedSrc == combined_src \o entries_src

RECURSIVE SizesUnderAction(_)
SizesUnderAction(by_arch) ==
    IF DOMAIN by_arch = {} THEN 0
    ELSE LET r == CHOOSE x \in DOMAIN by_arch : TRUE
         IN  Cardinality(by_arch[r])
             + SizesUnderAction([x \in (DOMAIN by_arch) \ {r} |-> by_arch[x]])

RECURSIVE SizesOfAffected(_)
SizesOfAffected(affected) ==
    IF DOMAIN affected = {} THEN 0
    ELSE LET a == CHOOSE x \in DOMAIN affected : TRUE
         IN  SizesUnderAction(affected[a])
             + SizesOfAffected([x \in (DOMAIN affected) \ {a} |-> affected[x]])

PairsOf(affected) ==
    UNION {UNION {{<<name, r>> : name \in affected[a][r]} : r \in DOMAIN affected[a]} :
              a \in DOMAIN affected}

\* The (action, name, architecture) triples of an affected map.
TriplesOf(affected) ==
    UNION {UNION {{<<a, name, r>> : name \in affected[a][r]} : r \in DOMAIN affected[a]} :
              a \in DOMAIN affected}

\* C12 as claimed: in every emitted transaction, altered is the number of
\* distinct (name, architecture) pairs that occur under any action.
C12_AlteredIsDistinctPairs ==
    \A k \in 1..Len(Emitted) : Emitted[k].altered = Cardinality(PairsOf(Emitted[k].affected))

\* C12 as amended: in every emitted transaction, altered is the number of
\* distinct (action, name, architecture) triples: a pair is counted once
\* for each action it occurs under.
C12_AlteredIsDistinctTriples ==
    \A k \in 1..Len(Emitted) : Emitted[k].altered = Cardinality(TriplesOf(Emitted[k].affected))

\* A transaction in which the pair (a, x) is both installed and removed was
\* emitted: two distinct pairs, three triples, altered 3.
C12_Witness ==
    \E k \in 1..Len(combined) :
        /\ {K_Install, K_Remove} \subseteq DOMAIN combined[k].affected
        /\ Cardinality(PairsOf(combined[k].affected)) = 2
        /\ Cardinality(TriplesOf(combined[k].affected)) = 3
        /\ <<"a">> \in combined[k].affected[K_Install][<<"x">>]
        /\ <<"a">> \in combined[k].affected[K_Remove][<<"x">>]
        /\ combined[k].altered = 3

\* The command line a record held when it was finalized: the value of the
\* last Commandline line among its lines, empty if there is none.
RECURSIVE RawCommandLine(_)
RawCommandLine(lines) ==
    IF lines = <<>> THEN <<>>
    ELSE LET line == lines[Len(lines)]
         IN  IF line # L_blank /\ line_descriptor(line) = K_Commandline
             THEN line_value(line).val
             ELSE RawCommandLine(Front(lines))

\* C13: the finalized command line of every emitted transaction has at
\* most MAX_COMMAND_LINE_LEN characters; if the raw one was longer it ends
\* with the ellipsis marker; if the raw one started with "apt " the
\* finalized one is the (possibly cut) text without these four characters.
C13_CommandLineFinalized ==
    \A k \in 1..Len(Emitted) :
        LET raw == RawCommandLine(EmittedSrc[k].lines)
            fin == Emitted[k].command_line
            cut == IF Len(raw) > MAX_COMMAND_LINE_LEN
                   THEN SubSeq(raw, 1, MAX_COMMAND_LINE_LEN - Len(COMMAND_LINE_ELLIPSIS))
                        \o COMMAND_LINE_ELLIPSIS
                   ELSE raw
        IN  /\ Len(fin) <= MAX_COMMAND_LINE_LEN
            /\ Len(raw) > MAX_COMMAND_LINE_LEN => ends_with(fin, COMMAND_LINE_ELLIPSIS)
            /\ starts_with(raw, APT_PREFIX) =>
                   /\ APT_PREFIX \o fin = cut
                   /\ Len(fin) = Len(cut) - Len(APT_PREFIX)
            /\ ~starts_with(raw, APT_PREFIX) => fin = cut

\* A command line of MAX + 1 characters starting with "apt " was finalized:
\* cut, ending with the ellipsis, without the prefix.
C13_Witness ==
    \E k \in 1..Len(combined) :
        /\ Len(RawCommandLine(combined_src[k].lines)) = MAX_COMMAND_LINE_LEN + 1
        /\ starts_with(RawCommandLine(combined_src[k].lines), APT_PREFIX)
        /\ Len(combined[k].command_line) = MAX_COMMAND_LINE_LEN - Len(APT_PREFIX)
        /\ ends_with(combined[k].command_line, COMMAND_LINE_ELLIPSIS)
        /\ combined[k].command_line[1] = "z"

\* Whether a whole name is history.log or history.log.<N>.gz, N one or more
\* digits.
IsLogName(name) ==
    \/ name = CURRENT_HISTORY_FILE
    \/ /\ starts_with(name, CURRENT_HISTORY_FILE \o <<".">>)
       /\ ends_with(name, GZ_SUFFIX)
       /\ Len(name) > Len(CURRENT_HISTORY_FILE) + 1 + Len(GZ_SUFFIX)
       /\ \A i \in (Len(CURRENT_HISTORY_FILE) + 2)..(Len(name) - Len(GZ_SUFFIX)) :
              IsDigit(name[i])

\* C14 as claimed: once the directory has been read, the candidate files
\* are exactly the entries whose whole name is history.log or
\* history.log.<N>.gz, and neither the selection nor the ordering fails,
\* whatever else the directory holds.
C14_OnlyWholeNameMatchesSelected ==
    pc # "read_dir" =>
        /\ Range(history_files) = {name \in dir_names : IsLogName(name)}
        /\ pc # "panic"

\* The keys the parser recognizes.
KnownKeys == ActionKeys \cup {K_Commandline, K_StartDate, K_EndDate, K_Error, K_RequestedBy}

\* A non-blank line whose key is not recognized.
HasUnknownKey(line) == line # L_blank /\ KeyBeforeFirstSeparator(line) \notin KnownKeys

\* The lines read so far that belong to a record emitted or in progress.
LinesKept ==
    Range(record_lines) \cup UNION {Range(EmittedSrc[k].lines) : k \in 1..Len(EmittedSrc)}

\* C15: once a line with an unrecognized key has been read the run has
\* failed: it is not, and (a failed run takes no further step) never will
\* be, at a position where history_entries has returned a list, whatever
\* records were completed before the line.
C15_UnknownKeyFailsTheRun ==
    /\ (record_lines # <<>> /\ HasUnknownKey(record_lines[Len(record_lines)])) => pc = "panic"
    /\ (\E line \in LinesKept : HasUnknownKey(line)) => pc = "panic" /\ ~Returned
    /\ Returned => \A line \in LinesKept : ~HasUnknownKey(line)

\* The first file yielded a transaction; then "Foo: f" was read in the
\* second file and the run failed with that transaction never returned.
C15_Witness ==
    /\ pc = "panic"
    /\ Len(combined) >= 1
    /\ file_pos = 2
    /\ record_lines # <<>>
    /\ record_lines[Len(record_lines)] = L_unknown

\* The first letters of a set of actions, each once, in sorted order.
RECURSIVE LetterSetFrom(_, _)
LetterSetFrom(actions, i) ==
    IF i > Len(UpperAlphabet) THEN <<>>
    ELSE (IF \E a \in actions : a[1] = UpperAlphabet[i] THEN << <<UpperAlphabet[i]>> >> ELSE <<>>)
         \o LetterSetFrom(actions, i + 1)

\* The transaction a row of the no-query listing was made from.
RowEntry(i) == combined[rows[i].id]

\* C16 as claimed: the Action(s) cell of a transaction with one action
\* kind is that action's word; with several action kinds it is the set of
\* their first letters, sorted and joined with ", ", each letter once.
C16_ActionSummary ==
    (pc = "listed" /\ ~query_some) =>
        \A i \in 1..Len(rows) :
            LET actions == DOMAIN RowEntry(i).affected
            IN  /\ Cardinality(actions) = 1 => rows[i].actions \in actions
                /\ Cardinality(actions) > 1 =>
                       rows[i].actions = join(LetterSetFrom(actions, 1), <<",", " ">>)

\* Whether some selector of the query stands for the k-th transaction.
Asked(k) ==
    \/ \E sel \in IntegerSelectors : TargetId(sel) = combined[k].id
    \/ \E sel \in asked \ IntegerSelectors : AffectedContains(combined[k], sel)

\* C17: what matching_entries returns is a subsequence of the store in
\* store order (ids ascending, every element the stored transaction of its
\* id) that holds each matching transaction exactly once, however many
\* selectors match it; and no step of the query changes the store.
C17_MatchesKeepStoreOrder ==
    /\ [](pc = "matched" =>
            /\ \A i \in 1..Len(selected) :
                   /\ selected[i].id \in 1..Len(combined)
                   /\ selected[i] = combined[selected[i].id]
            /\ \A i, j \in 1..Len(selected) : i < j => selected[i].id < selected[j].id
            /\ \A k \in 1..Len(combined) :
                   Asked(k) => Cardinality({i \in 1..Len(selected) : selected[i] = combined[k]}) = 1)
    /\ [][(pc \in {"done", "resolve"}) => (combined' = combined)]_vars

\* Of two transactions the newest installs c; the query "0", "c" matches
\* it by its id and by the name, and returned it once.
C17_Witness ==
    /\ pc = "matched"
    /\ Len(combined) = 2
    /\ asked = {<<"0">>, <<"c">>}
    /\ AffectedContains(combined[2], <<"c">>)
    /\ ~AffectedContains(combined[1], <<"c">>)
    /\ selected = <<combined[2]>>

\* C18: the listing without a selector has one row for every transaction
\* of the store; without the reverse flag the rows go from the newest id
\* down to 1, with the flag from 1 up to the newest.
C18_ListOrder ==
    (pc = "listed" /\ ~query_some) =>
        /\ Len(rows) = Len(combined)
        /\ \A i \in 1..Len(rows) :
               /\ rows[i].id = IF reverse THEN i ELSE Len(combined) + 1 - i
               /\ rows[i].command_line = combined[rows[i].id].command_line
               /\ rows[i].altered = combined[rows[i].id].altered

\* Two transactions were listed without a selector and without the flag:
\* the row of id 2 first, then the row of id 1.
C18_Witness ==
    /\ pc = "listed"
    /\ ~query_some
    /\ ~reverse
    /\ Len(combined) = 2
    /\ Len(rows) = 2
    /\ rows[1].id = 2
    /\ rows[2].id = 1

\* The record a run started at wall-clock time t builds from the lines of
\* one record and finalizes with the id idx.
RECURSIVE ReplayFrom(_, _, _)
ReplayFrom(lines, n, st) ==
    IF n > Len(lines) THEN st
    ELSE IF lines[n] = L_blank THEN ReplayFrom(lines, n + 1, st)
    ELSE LET r == apply_field(st.entry, st.package_map, line_descriptor(lines[n]),
                              line_value(lines[n]).val)
         IN  ReplayFrom(lines, n + 1, [entry |-> r.entry, package_map |-> r.package_map])

Replay(lines, idx, t) ==
    LET st == ReplayFrom(lines, 1, [entry |-> HistoryEntry_new(t), package_map |-> EmptyMap])
    IN  finalize_entry(st.entry, idx, st.package_map)

\* C19 as claimed: every emitted transaction is, field by field, the one
\* any other run over the same lines produces, whatever the time of that
\* run.
C19_ParsingIsDeterministic ==
    \A k \in 1..Len(Emitted) :
        \A t \in Clock : Emitted[k] = Replay(EmittedSrc[k].lines, Emitted[k].id, t)

\* The records b blank lines of one file emit: all but the first.
FromBlanks(b) == IF b = 0 THEN 0 ELSE b - 1

\* C20: while a file is read, with b blank lines read so far from it:
\* the first of them (wherever it was) emitted nothing and used no id,
\* each later one emitted one record, so b - 1 records are emitted and the
\* id in progress is the start id plus b - 1; right after a later blank
\* line the record in progress is a new empty one; and a file parsed to
\* its end returned these records plus at most one for the end of stream.
C20_BlankLines ==
    /\ pc = "lines" =>
           LET b == nblank
           IN  /\ seen_entry <=> b >= 1
               /\ Len(entries) = FromBlanks(b)
               /\ index = id + FromBlanks(b)
               /\ \A k \in 1..Len(entries) : entries[k].id = id + k - 1
               /\ (b >= 2 /\ record_lines = <<>>) =>
                      /\ entry = HistoryEntry_new(now)
                      /\ package_map = EmptyMap
    /\ \A k \in 1..Len(file_log) :
           file_log[k].nentries =
               FromBlanks(file_log[k].nblank) + (IF file_log[k].eof_emitted THEN 1 ELSE 0)

\* A file began with a Commandline line: the blank line after it, the
\* first of the file, emitted nothing; the next blank line emitted the
\* record.
C20_Witness ==
    /\ pc = "lines"
    /\ nblank = 2
    /\ Len(entries) = 1
    /\ entries_src[1].lines = <<L_cmd_apt, L_blank>>
    /\ record_lines = <<>>
    /\ entries[1].command_line = <<"i">>
    /\ index = id + 1

\* Whether one of the lines is an action line for this action whose value
\* names the package under the architecture.
FromActionLine(lines, action, arch, name) ==
    \E n \in 1..Len(lines) :
        /\ lines[n] # L_blank
        /\ KeyBeforeFirstSeparator(lines[n]) = action
        /\ LET pkgs == packages_from_action_line(ValueAfterFirstSeparator(lines[n]))
           IN  pkgs.ok /\ arch \in DOMAIN pkgs.val /\ name \in pkgs.val[arch]

\* Whether every action and package of a map comes from the lines.
OnlyFrom(pmap, lines) ==
    \A action \in DOMAIN pmap :
        /\ action \in ActionKeys
        /\ \E n \in 1..Len(lines) :
               lines[n] # L_blank /\ KeyBeforeFirstSeparator(lines[n]) = action
        /\ \A arch \in DOMAIN pmap[action] :
               \A name \in pmap[action][arch] : FromActionLine(lines, action, arch, name)

\* C21: the affected map of every emitted transaction, and the working
\* package map, hold only what the action lines of their own record gave
\* (the lines read since the previous record was emitted or the file was
\* opened); the working map is empty whenever a record begins, and when a
\* file is about to be opened.
C21_NoLeakBetweenRecords ==
    /\ \A k \in 1..Len(Emitted) : OnlyFrom(Emitted[k].affected, EmittedSrc[k].lines)
    /\ OnlyFrom(package_map, record_lines)
    /\ (pc = "lines" /\ record_lines = <<>>) => package_map = EmptyMap
    /\ pc = "open" => package_map = EmptyMap

\* The first file yielded a transaction that installs c; the transaction
\* of the second file, which has no action line, has an empty affected map.
C21_Witness ==
    /\ Len(combined) = 2
    /\ combined_src[1].file = 1
    /\ combined_src[2].file = 2
    /\ K_Install \in DOMAIN combined[1].affected
    /\ combined[2].affected = EmptyMap
    /\ combined[2].altered = 0

====
